---- MODULE Spec2Model ----
(***************************************************************************)
(* The governance ledger of src/src/governance.rs: GovernancePallet with   *)
(* its two maps (proposals, votes), its id counter (next_proposal_id) and  *)
(* the five operations create_proposal, vote, get_proposal,                *)
(* finalize_proposal and get_proposal_details.  Every call is one atomic   *)
(* step (the methods take &mut self or &self: no interleaving inside one). *)
(***************************************************************************)
EXTENDS Integers, Sequences, FiniteSets, TLC

\* ---------------------------------------------------------------- bounds
\* Number of create_proposal calls explored under Spec.
MaxProposals == 2

\* Stand-in for u32::MAX under SpecWrap: the range of next_proposal_id scaled
\* down so that the counter reaches its maximum within the explored calls.
WrapMaxId == 1

\* ------------------------------------------------------ program constants
\* T::AccountId values (the test uses alice = 1, bob = 2).
AccountId == {1, 2}

\* The (creator: T::AccountId, description: String) arguments create_proposal
\* is called with; the description is opaque to the ledger.
CreateArgs == {<<1, "a">>, <<2, "b">>}

\* The arguments explored for the call that follows `calls` earlier ones.  The
\* first call's are fixed: exchanging account 1 with 2 and "a" with "b"
\* throughout maps every behaviour that starts with <<2, "b">> onto one that
\* starts with <<1, "a">>.
CreateArgsAfter(calls) == IF calls = 0 THEN {<<1, "a">>} ELSE CreateArgs

\* proposal_id arguments callers pass: every id that can be allocated and
\* one that never is.
ProposalIds == 0..MaxProposals

\* enum ProposalStatus
Active == "Active"
Approved == "Approved"
Rejected == "Rejected"
ProposalStatus == {Active, Approved, Rejected}

\* The &'static str error values.
ProposalNotFound == "No proposal found with the given ID"
ProposalNotActive == "Cannot vote on inactive proposal"
DuplicateVote == "Voter has already cast a vote for this proposal"
AlreadyFinalized == "Cannot finalize an already finalized proposal"

\* Result<_, &'static str>, Option<_>, and a panic that unwinds out of a call.
Ok(v) == <<"Ok", v>>
Err(e) == <<"Err", e>>
Some(v) == <<"Some", v>>
None == <<"None">>
Panicked == <<"Panic", "attempt to add with overflow">>
Unit == "()"
IsOk(r) == r[1] = "Ok"
IsErr(r) == r[1] = "Err"
IsErrOf(r, e) == r[1] = "Err" /\ r[2] = e

\* ------------------------------------------------------------------ state
VARIABLES
    proposals,          \* HashMap<u32, Proposal<T>>
    votes,              \* HashMap<(T::AccountId, u32), bool>
    next_proposal_id,   \* u32
    last,               \* the latest call: its name, arguments and return value
    created,            \* history: the ids create_proposal has returned, in order
    passed,             \* history: per returned id, the arguments of the
                        \* create_proposal call that returned it
    voted,              \* history: the (voter, proposal_id) of every successful vote
    finalized           \* history: the ids of every successful finalize_proposal

ledger == <<proposals, votes, next_proposal_id>>
history == <<created, passed, voted, finalized>>
vars == <<proposals, votes, next_proposal_id, last, created, passed, voted, finalized>>

\* HashMap::insert: adds the entry, or replaces the value of an existing key.
Insert(map, key, value) ==
    [k \in (DOMAIN map) \cup {key} |-> IF k = key THEN value ELSE map[k]]

\* GovernancePallet::new
Init ==
    /\ proposals = <<>>
    /\ votes = <<>>
    /\ next_proposal_id = 0
    /\ last = [op |-> "new", result |-> Ok(Unit)]
    /\ created = <<>>
    /\ passed = <<>>
    /\ voted = {}
    /\ finalized = {}

\* A panic unwinds out of the call: the ledger is not used afterwards.
Running == last.result # Panicked

\* -------------------------------------------------------- create_proposal
\* Mutant: the record starts with an empty description.
new_proposal_empty_description(creator, description) ==
    [description |-> "",
     yes_votes |-> 0,
     no_votes |-> 0,
     status |-> Active,
     creator |-> creator]

new_proposal(creator, description) ==
    [description |-> description,
     yes_votes |-> 0,
     no_votes |-> 0,
     status |-> Active,
     creator |-> creator]

\* Mutant: the counter is not advanced.
next_id_after_stuck(current_id) == current_id

\* Mutant: the counter is advanced twice.
next_id_after_skip(current_id) == current_id + 2

\* `self.next_proposal_id += 1` (line 54) while the u32 counter is below its
\* maximum.
next_id_after(current_id) == current_id + 1

\* create_proposal while next_proposal_id is below u32::MAX.
create_proposal(creator, description) ==
    LET current_id == next_proposal_id
    IN  /\ proposals' = Insert(proposals, current_id, new_proposal(creator, description))
        /\ next_proposal_id' = next_id_after(current_id)
        /\ last' = [op |-> "create_proposal", creator |-> creator,
                    description |-> description, result |-> Ok(current_id)]
        /\ created' = Append(created, current_id)
        /\ passed' = Insert(passed, current_id,
                            [creator |-> creator, description |-> description])
        /\ UNCHANGED <<votes, voted, finalized>>

\* create_proposal with next_proposal_id at its maximum: `+= 1` overflows
\* after the insert of line 53.  A build without overflow checks wraps the
\* counter to 0 and returns; a build with them panics at line 54.
create_proposal_at_max(creator, description) ==
    LET current_id == next_proposal_id
        call == [op |-> "create_proposal", creator |-> creator,
                 description |-> description, result |-> Ok(current_id)]
    IN  /\ proposals' = Insert(proposals, current_id, new_proposal(creator, description))
        /\ UNCHANGED <<votes, voted, finalized>>
        /\ \/ /\ next_proposal_id' = 0
              /\ last' = call
              /\ created' = Append(created, current_id)
              /\ passed' = Insert(passed, current_id,
                                  [creator |-> creator, description |-> description])
           \/ /\ next_proposal_id' = current_id
              /\ last' = [call EXCEPT !.result = Panicked]
              /\ UNCHANGED <<created, passed>>

\* ------------------------------------------------------------------- vote
\* Mutant: the duplicate check is missing.
has_voted_never(vote_key) == FALSE

\* Mutant: the record is looked up by voter alone.
has_voted_any_proposal(vote_key) ==
    \E k \in DOMAIN votes : k[1] = vote_key[1]

\* line 74
has_voted(vote_key) == vote_key \in DOMAIN votes

\* Mutant: the duplicate check runs before the status check.
vote_outcome_dup_first(voter, proposal_id) ==
    IF proposal_id \in DOMAIN proposals
    THEN IF <<voter, proposal_id>> \in DOMAIN votes
         THEN Err(DuplicateVote)
         ELSE IF proposals[proposal_id].status # Active
              THEN Err(ProposalNotActive)
              ELSE Ok(Unit)
    ELSE Err(ProposalNotFound)

\* Mutant: the status check is missing.
vote_outcome_no_status(voter, proposal_id) ==
    IF proposal_id \in DOMAIN proposals
    THEN IF <<voter, proposal_id>> \in DOMAIN votes
         THEN Err(DuplicateVote)
         ELSE Ok(Unit)
    ELSE Err(ProposalNotFound)

\* The validation of vote, lines 68-76 and 87, in the order the code runs it.
vote_outcome(voter, proposal_id) ==
    IF proposal_id \in DOMAIN proposals
    THEN IF proposals[proposal_id].status # Active
         THEN Err(ProposalNotActive)
         ELSE IF has_voted(<<voter, proposal_id>>)
              THEN Err(DuplicateVote)
              ELSE Ok(Unit)
    ELSE Err(ProposalNotFound)

\* Mutant: a no vote is not counted.
tally_yes_only(proposal, vote_type) ==
    IF vote_type
    THEN [proposal EXCEPT !.yes_votes = @ + 1]
    ELSE proposal

\* Mutant: the two arms of the match are exchanged.
tally_swapped(proposal, vote_type) ==
    IF vote_type
    THEN [proposal EXCEPT !.no_votes = @ + 1]
    ELSE [proposal EXCEPT !.yes_votes = @ + 1]

\* Mutant: both arms of the match increment yes_votes.
tally_yes_always(proposal, vote_type) ==
    [proposal EXCEPT !.yes_votes = @ + 1]

\* lines 80-83.  A counter grows by one per distinct voter (line 74), so it
\* stays within Cardinality(AccountId), below u32::MAX.
tally(proposal, vote_type) ==
    IF vote_type
    THEN [proposal EXCEPT !.yes_votes = @ + 1]
    ELSE [proposal EXCEPT !.no_votes = @ + 1]

\* Mutant: the record is inserted first and the previous value returned by
\* insert serves as the duplicate check, so a refused duplicate overwrites the
\* stored vote_type.
vote_insert_as_check(voter, proposal_id, vote_type) ==
    LET vote_key == <<voter, proposal_id>>
        outcome == vote_outcome(voter, proposal_id)
    IN  /\ last' = [op |-> "vote", voter |-> voter, proposal_id |-> proposal_id,
                    vote_type |-> vote_type, result |-> outcome]
        /\ UNCHANGED <<next_proposal_id, created, passed, finalized>>
        /\ votes' = IF IsOk(outcome) \/ IsErrOf(outcome, DuplicateVote)
                    THEN Insert(votes, vote_key, vote_type) ELSE votes
        /\ IF IsOk(outcome)
           THEN /\ proposals' = [proposals EXCEPT
                                   ![proposal_id] = tally(@, vote_type)]
                /\ voted' = voted \cup {vote_key}
           ELSE UNCHANGED <<proposals, voted>>

\* Mutant: the record is inserted before the proposal is looked up.
vote_insert_first(voter, proposal_id, vote_type) ==
    LET vote_key == <<voter, proposal_id>>
        outcome == vote_outcome(voter, proposal_id)
    IN  /\ last' = [op |-> "vote", voter |-> voter, proposal_id |-> proposal_id,
                    vote_type |-> vote_type, result |-> outcome]
        /\ UNCHANGED <<next_proposal_id, created, passed, finalized>>
        /\ votes' = IF IsOk(outcome) \/ IsErrOf(outcome, ProposalNotFound)
                    THEN Insert(votes, vote_key, vote_type) ELSE votes
        /\ IF IsOk(outcome)
           THEN /\ proposals' = [proposals EXCEPT
                                   ![proposal_id] = tally(@, vote_type)]
                /\ voted' = voted \cup {vote_key}
           ELSE UNCHANGED <<proposals, voted>>

vote(voter, proposal_id, vote_type) ==
    LET vote_key == <<voter, proposal_id>>
        outcome == vote_outcome(voter, proposal_id)
    IN  /\ last' = [op |-> "vote", voter |-> voter, proposal_id |-> proposal_id,
                    vote_type |-> vote_type, result |-> outcome]
        /\ UNCHANGED <<next_proposal_id, created, passed, finalized>>
        /\ IF IsOk(outcome)
           THEN /\ votes' = Insert(votes, vote_key, vote_type)
                /\ proposals' = [proposals EXCEPT
                                   ![proposal_id] = tally(@, vote_type)]
                /\ voted' = voted \cup {vote_key}
           ELSE UNCHANGED <<proposals, votes, voted>>

\* ----------------------------------------------------------- get_proposal
get_proposal(proposal_id) ==
    /\ last' = [op |-> "get_proposal", proposal_id |-> proposal_id,
                result |-> IF proposal_id \in DOMAIN proposals
                           THEN Some(proposals[proposal_id])
                           ELSE None]
    /\ UNCHANGED <<ledger, history>>

\* ------------------------------------------------------ finalize_proposal
\* Mutant: a tie approves.
new_status_tie_approves(proposal) ==
    IF proposal.yes_votes >= proposal.no_votes THEN Approved ELSE Rejected

\* lines 104-108
new_status(proposal) ==
    IF proposal.yes_votes > proposal.no_votes THEN Approved ELSE Rejected

\* Mutant: the status check is missing.
finalize_outcome_unchecked(proposal_id) ==
    IF proposal_id \in DOMAIN proposals
    THEN Ok(IF proposals[proposal_id].yes_votes > proposals[proposal_id].no_votes
            THEN Approved ELSE Rejected)
    ELSE Err(ProposalNotFound)

\* lines 98-102, 112, 114
finalize_outcome(proposal_id) ==
    IF proposal_id \in DOMAIN proposals
    THEN IF proposals[proposal_id].status # Active
         THEN Err(AlreadyFinalized)
         ELSE Ok(new_status(proposals[proposal_id]))
    ELSE Err(ProposalNotFound)

\* Mutant: the computed status is returned but not stored.
finalize_proposal_not_stored(proposal_id) ==
    LET outcome == finalize_outcome(proposal_id)
    IN  /\ last' = [op |-> "finalize_proposal", proposal_id |-> proposal_id,
                    result |-> outcome]
        /\ UNCHANGED <<proposals, votes, next_proposal_id, created, passed, voted>>
        /\ finalized' = IF IsOk(outcome)
                        THEN finalized \cup {proposal_id} ELSE finalized

finalize_proposal(proposal_id) ==
    LET outcome == finalize_outcome(proposal_id)
    IN  /\ last' = [op |-> "finalize_proposal", proposal_id |-> proposal_id,
                    result |-> outcome]
        /\ UNCHANGED <<votes, next_proposal_id, created, passed, voted>>
        /\ IF IsOk(outcome)
           THEN /\ proposals' = [proposals EXCEPT ![proposal_id].status = outcome[2]]
                /\ finalized' = finalized \cup {proposal_id}
           ELSE UNCHANGED <<proposals, finalized>>

\* --------------------------------------------------- get_proposal_details
get_proposal_details(proposal_id) ==
    /\ last' = [op |-> "get_proposal_details", proposal_id |-> proposal_id,
                result |-> IF proposal_id \in DOMAIN proposals
                           THEN Ok(<<proposals[proposal_id].description,
                                     proposals[proposal_id].creator>>)
                           ELSE Err(ProposalNotFound)]
    /\ UNCHANGED <<ledger, history>>

\* --------------------------------------------------------- specifications
CreateProposal ==
    \E args \in CreateArgsAfter(Len(created)) :
        /\ Running
        /\ Len(created) < MaxProposals
        /\ create_proposal(args[1], args[2])

Vote ==
    \E voter \in AccountId, proposal_id \in ProposalIds, vote_type \in BOOLEAN :
        Running /\ vote(voter, proposal_id, vote_type)

GetProposal ==
    \E proposal_id \in ProposalIds : Running /\ get_proposal(proposal_id)

FinalizeProposal ==
    \E proposal_id \in ProposalIds : Running /\ finalize_proposal(proposal_id)

GetProposalDetails ==
    \E proposal_id \in ProposalIds : Running /\ get_proposal_details(proposal_id)

Next ==
    \/ CreateProposal
    \/ Vote
    \/ GetProposal
    \/ FinalizeProposal
    \/ GetProposalDetails

Spec == Init /\ [][Next]_vars

\* The same ledger with the id counter's maximum scaled to WrapMaxId, and
\* enough create_proposal calls to pass it and allocate once more.
CreateProposalWrap ==
    \E args \in CreateArgsAfter(Len(created)) :
        /\ Running
        /\ Len(created) < WrapMaxId + 2
        /\ IF next_proposal_id < WrapMaxId
           THEN create_proposal(args[1], args[2])
           ELSE create_proposal_at_max(args[1], args[2])

NextWrap ==
    \/ CreateProposalWrap
    \/ Vote
    \/ GetProposal
    \/ FinalizeProposal
    \/ GetProposalDetails

SpecWrap == Init /\ [][NextWrap]_vars

\* ------------------------------------------------------------------ claims
\* The number of vote records keyed to proposal_id.
VoteCount(proposal_id) == Cardinality({k \in DOMAIN votes : k[2] = proposal_id})

RepeatedVote ==
    /\ last'.op = "vote"
    /\ <<last'.voter, last'.proposal_id>> \in voted

CountersUnchanged(proposal_id) ==
    /\ proposal_id \in DOMAIN proposals
    /\ proposal_id \in DOMAIN proposals'
    /\ proposals'[proposal_id].yes_votes = proposals[proposal_id].yes_votes
    /\ proposals'[proposal_id].no_votes = proposals[proposal_id].no_votes

\* C2 as stated: once vote(V, P, _) has succeeded, every later vote(V, P, t)
\* fails with DuplicateVote and leaves the counters of P unchanged, also after
\* P has been finalized.
C2_AlwaysDuplicateVote ==
    [][RepeatedVote =>
          /\ IsErrOf(last'.result, DuplicateVote)
          /\ CountersUnchanged(last'.proposal_id)]_vars

\* C2 amended: once vote(V, P, _) has succeeded, every later vote(V, P, t)
\* fails and leaves the counters of P and votes unchanged; the error is
\* DuplicateVote while P is Active and ProposalNotActive once P is finalized.
C2_RepeatedVoteFails ==
    [][RepeatedVote =>
          /\ CountersUnchanged(last'.proposal_id)
          /\ votes' = votes
          /\ IsErrOf(last'.result,
                     IF proposals[last'.proposal_id].status = Active
                     THEN DuplicateVote ELSE ProposalNotActive)]_vars

\* A repeated vote with the other vote_type was refused as a duplicate.
C2_Witness ==
    /\ last.op = "vote"
    /\ <<last.voter, last.proposal_id>> \in voted
    /\ IsErrOf(last.result, DuplicateVote)
    /\ votes[<<last.voter, last.proposal_id>>] # last.vote_type

\* C3: vote reports the first failing precondition in the order
\* ProposalNotFound, ProposalNotActive (whether or not the voter has a record),
\* DuplicateVote, and succeeds otherwise; the four outcomes are distinct values.
C3_VoteErrorOrder ==
    [][last'.op = "vote" =>
          LET v == last'.voter
              p == last'.proposal_id
          IN  /\ last'.result =
                    IF p \notin DOMAIN proposals THEN Err(ProposalNotFound)
                    ELSE IF proposals[p].status # Active THEN Err(ProposalNotActive)
                    ELSE IF <<v, p>> \in DOMAIN votes THEN Err(DuplicateVote)
                    ELSE Ok(Unit)
              /\ ProposalNotFound # ProposalNotActive
              /\ ProposalNotFound # DuplicateVote
              /\ ProposalNotActive # DuplicateVote
              /\ \A e \in {ProposalNotFound, ProposalNotActive, DuplicateVote} :
                    Err(e) # Ok(Unit)]_vars

\* A voter with a record on a finalized proposal votes again and is answered
\* ProposalNotActive.
C3_Witness ==
    /\ last.op = "vote"
    /\ <<last.voter, last.proposal_id>> \in DOMAIN votes
    /\ IsErrOf(last.result, ProposalNotActive)

C5_DecisionRule ==
    [][last'.op = "finalize_proposal" =>
          LET p == last'.proposal_id
          IN  /\ p \notin DOMAIN proposals => IsErrOf(last'.result, ProposalNotFound)
              /\ IsOk(last'.result) =>
                    /\ p \in DOMAIN proposals
                    /\ (last'.result[2] = Approved) <=>
                          (proposals[p].yes_votes > proposals[p].no_votes)
                    /\ (last'.result[2] = Rejected) <=>
                          (proposals[p].yes_votes <= proposals[p].no_votes)]_vars

\* A one-to-one tie was finalized as Rejected.
C5_Witness ==
    /\ last.op = "finalize_proposal"
    /\ last.result = Ok(Rejected)
    /\ proposals[last.proposal_id].yes_votes = 1
    /\ proposals[last.proposal_id].no_votes = 1

\* C6: create_proposal always succeeds, the id it returns is greater than
\* every id returned before (strictly increasing, pairwise distinct), and the
\* call never replaces an existing proposal record, the counter's maximum
\* included.
C6_CreateNeverReusesId ==
    [][last'.op = "create_proposal" =>
          /\ IsOk(last'.result)
          /\ \A i \in 1..Len(created) : created[i] < last'.result[2]
          /\ \A p \in DOMAIN proposals :
                p \in DOMAIN proposals' /\ proposals'[p] = proposals[p]]_vars

\* An operation returned an error.
ErrorReturned ==
    /\ last'.op \in {"vote", "finalize_proposal", "get_proposal_details"}
    /\ IsErr(last'.result)

\* C7: whenever vote, finalize_proposal or get_proposal_details returns an
\* error, proposals, votes and next_proposal_id are as before the call.
C7_ErrorsLeaveLedger ==
    [][ErrorReturned => UNCHANGED ledger]_vars

\* A duplicate vote with the other vote_type was refused on a ledger that
\* holds records.
C7_Witness ==
    /\ last.op = "vote"
    /\ IsErrOf(last.result, DuplicateVote)
    /\ votes[<<last.voter, last.proposal_id>>] # last.vote_type
    /\ Cardinality(DOMAIN proposals) = 2

C10_VotesNameProposals ==
    /\ \A k \in DOMAIN votes : k[2] \in DOMAIN proposals
    /\ (last.op = "vote" /\ last.proposal_id \notin DOMAIN proposals) =>
           IsErrOf(last.result, ProposalNotFound)

\* A vote on an id that has no record, on a ledger that holds vote records.
C10_Witness ==
    /\ last.op = "vote"
    /\ last.proposal_id \notin DOMAIN proposals
    /\ IsErrOf(last.result, ProposalNotFound)
    /\ DOMAIN votes # {}

\* C11: a successful vote(V, P, t) is one step that adds exactly the entry
\* (V, P) -> t to votes and increments exactly one counter of P by 1 (yes_votes
\* if t, no_votes otherwise), leaving the other counter unchanged.
C11_VoteRecordsAndCounts ==
    [][(last'.op = "vote" /\ IsOk(last'.result)) =>
          LET k == <<last'.voter, last'.proposal_id>>
              p == last'.proposal_id
              t == last'.vote_type
          IN  /\ k \notin DOMAIN votes
              /\ DOMAIN votes' = (DOMAIN votes) \cup {k}
              /\ votes'[k] = t
              /\ \A j \in DOMAIN votes : votes'[j] = votes[j]
              /\ p \in DOMAIN proposals /\ p \in DOMAIN proposals'
              /\ proposals'[p].yes_votes =
                    proposals[p].yes_votes + (IF t THEN 1 ELSE 0)
              /\ proposals'[p].no_votes =
                    proposals[p].no_votes + (IF t THEN 0 ELSE 1)]_vars

\* A successful no vote that followed a yes vote on the same proposal.
C11_Witness ==
    /\ last.op = "vote"
    /\ IsOk(last.result)
    /\ last.vote_type = FALSE
    /\ votes[<<last.voter, last.proposal_id>>] = FALSE
    /\ proposals[last.proposal_id].yes_votes = 1
    /\ proposals[last.proposal_id].no_votes = 1

\* C12: a successful finalize_proposal(P) stores in the status of P exactly
\* the value it returns and leaves the counters of P, every other proposal,
\* votes and next_proposal_id unchanged.
C12_FinalizeStoresReturned ==
    [][(last'.op = "finalize_proposal" /\ IsOk(last'.result)) =>
          LET p == last'.proposal_id
          IN  /\ p \in DOMAIN proposals
              /\ DOMAIN proposals' = DOMAIN proposals
              /\ proposals'[p] = [proposals[p] EXCEPT !.status = last'.result[2]]
              /\ last'.result[2] \in {Approved, Rejected}
              /\ \A q \in (DOMAIN proposals) \ {p} : proposals'[q] = proposals[q]
              /\ votes' = votes
              /\ next_proposal_id' = next_proposal_id]_vars

\* The proposal with the lower id was finalized as Approved while the other
\* one holds a vote.
C12_Witness ==
    /\ last.op = "finalize_proposal"
    /\ last.result = Ok(Approved)
    /\ last.proposal_id = 0
    /\ proposals[0].status = Approved
    /\ 1 \in DOMAIN proposals
    /\ VoteCount(1) = 1

\* C13: once an entry (V, P) -> t exists in votes it is present with the same
\* value in every later state: no step removes or changes a vote record.
C13_VoteRecordsKept ==
    [][\A k \in DOMAIN votes : k \in DOMAIN votes' /\ votes'[k] = votes[k]]_vars

\* A vote record of a finalized proposal, after a later create_proposal.
C13_Witness ==
    /\ last.op = "create_proposal"
    /\ \E k \in DOMAIN votes : k[2] \in finalized

C16_OutcomeAgreesWithTallies ==
    \A p \in DOMAIN proposals :
        /\ proposals[p].status = Approved =>
               proposals[p].yes_votes > proposals[p].no_votes
        /\ proposals[p].status = Rejected =>
               proposals[p].yes_votes <= proposals[p].no_votes

\* A voter without a record was refused on a proposal Approved by one vote to
\* none.
C16_Witness ==
    /\ last.op = "vote"
    /\ IsErrOf(last.result, ProposalNotActive)
    /\ <<last.voter, last.proposal_id>> \notin DOMAIN votes
    /\ proposals[last.proposal_id].status = Approved
    /\ proposals[last.proposal_id].yes_votes = 1
    /\ proposals[last.proposal_id].no_votes = 0

\* The number of vote records keyed to proposal_id with the given value.
VoteCountOf(proposal_id, vote_type) ==
    Cardinality({k \in DOMAIN votes : k[2] = proposal_id /\ votes[k] = vote_type})

ledger_after_vote(L, voter, proposal_id, vote_type) ==
    [proposals |-> [L.proposals EXCEPT ![proposal_id] = tally(@, vote_type)],
     votes |-> Insert(L.votes, <<voter, proposal_id>>, vote_type),
     next_proposal_id |-> L.next_proposal_id]

\* The ledger a successful finalize_proposal (lines 104-110) leaves.
ledger_after_finalize(L, proposal_id) ==
    [proposals |-> [L.proposals EXCEPT
                      ![proposal_id].status = new_status(L.proposals[proposal_id])],
     votes |-> L.votes,
     next_proposal_id |-> L.next_proposal_id]

Ledger ==
    [proposals |-> proposals, votes |-> votes, next_proposal_id |-> next_proposal_id]

\* The step is a successful vote / finalize_proposal call.
VoteDone == last'.op = "vote" /\ IsOk(last'.result)
FinalizeDone == last'.op = "finalize_proposal" /\ IsOk(last'.result)

\* C19: two vote calls with different (voter, proposal) keys, and a vote and a
\* finalize_proposal on different ids, commute: each call returns the same
\* result and the final ledger is the same in either order.  Stated on the
\* first call x of a pair, for every second call y: a failing x leaves the
\* ledger, hence every result of y, as it was; a successful x leaves the ledger
\* ledger_after_...(x), does not change the result of y, and followed by a
\* successful y reaches the ledger that y followed by x reaches.
C19_IndependentCallsCommute ==
    [][/\ (last'.op \in {"vote", "finalize_proposal"} /\ ~IsOk(last'.result)) =>
             UNCHANGED ledger
       /\ VoteDone =>
             LET v1 == last'.voter
                 p1 == last'.proposal_id
                 t1 == last'.vote_type
             IN  /\ Ledger' = ledger_after_vote(Ledger, v1, p1, t1)
                 /\ \A v2 \in AccountId, p2 \in ProposalIds :
                       <<v2, p2>> # <<v1, p1>> =>
                          /\ vote_outcome(v2, p2)' = vote_outcome(v2, p2)
                          /\ IsOk(vote_outcome(v2, p2)) =>
                                \A t2 \in BOOLEAN :
                                   ledger_after_vote(Ledger', v2, p2, t2) =
                                   ledger_after_vote(
                                       ledger_after_vote(Ledger, v2, p2, t2),
                                       v1, p1, t1)
                 /\ \A p2 \in ProposalIds \ {p1} :
                       /\ finalize_outcome(p2)' = finalize_outcome(p2)
                       /\ IsOk(finalize_outcome(p2)) =>
                             ledger_after_finalize(Ledger', p2) =
                             ledger_after_vote(ledger_after_finalize(Ledger, p2),
                                               v1, p1, t1)
       /\ FinalizeDone =>
             LET p1 == last'.proposal_id
             IN  /\ Ledger' = ledger_after_finalize(Ledger, p1)
                 /\ \A v2 \in AccountId, p2 \in ProposalIds \ {p1} :
                       /\ vote_outcome(v2, p2)' = vote_outcome(v2, p2)
                       /\ IsOk(vote_outcome(v2, p2)) =>
                             \A t2 \in BOOLEAN :
                                ledger_after_vote(Ledger', v2, p2, t2) =
                                ledger_after_finalize(
                                    ledger_after_vote(Ledger, v2, p2, t2), p1)]_vars

\* A successful vote on the second proposal by a voter who holds a record on
\* the first, finalized, proposal, while the other voter can still vote on the
\* second.
C19_Witness ==
    /\ last.op = "vote"
    /\ IsOk(last.result)
    /\ last.proposal_id = 1
    /\ <<last.voter, 0>> \in DOMAIN votes
    /\ 0 \in finalized
    /\ \E v \in AccountId : <<v, 1>> \notin DOMAIN votes

====
